---- MODULE Spec2Model ----
(***************************************************************************)
(* Model of the wine-collection backend: the inventory store               *)
(* (database.py), the label validator (wine_analyzer.py) and the analyze   *)
(* and drink request handlers (app.py).                                    *)
(***************************************************************************)
EXTENDS Integers, Sequences, FiniteSets, TLC

VARIABLES
    wines,      \* the wines table: row id -> row
    nextId,     \* AUTOINCREMENT / SERIAL counter of the wines table
    clock,      \* CURRENT_TIMESTAMP, in whole ticks
    wines0,     \* the table as it was when the requests started
    pc,         \* drink request -> position in drink_wine
    ident,      \* drink request -> result of identify_wine_image
    existing,   \* drink request -> row returned by find_matching_wine
    outcome,    \* drink request -> the response it sent
    touched,    \* drink request -> whether one of its steps changed the table
    qBefore,    \* drink request -> quantity stored just before its decrement
    history,    \* the responses of the drink requests, in order of completion
    query,      \* last arguments given to find_matching_wine
    found,      \* last result of find_matching_wine
    raw,        \* last mapping given to validate_wine_data
    cleaned,    \* last result of validate_wine_data
    analysis,   \* the response analyze_image has just sent, until the next request is served
    response,   \* last text the oracle answered with
    parsed      \* what analyze_wine_image and identify_wine_image made of it

vars == <<wines, nextId, clock, wines0, pc, ident, existing, outcome, touched,
          qBefore, history, query, found, raw, cleaned, analysis, response,
          parsed>>

-----------------------------------------------------------------------------
(* Bounds of the model *)

NumRequests == 3
MaxQuantity == 2
MaxWines == 2
MaxServed == 4
MaxKeys == 2
MaxBody == 3

Requests == 1..NumRequests

-----------------------------------------------------------------------------
(* JSON / SQL values.  Every value has the same three fields so that any   *)
(* two values can be compared: kind, a number n and a string s (a sequence *)
(* of one-character strings).  A float is held in tenths.                  *)

Null == [kind |-> "null", n |-> 0, s |-> <<>>]
I(k) == [kind |-> "int", n |-> k, s |-> <<>>]
S(t) == [kind |-> "str", n |-> 0, s |-> t]
F(tenths) == [kind |-> "float", n |-> tenths, s |-> <<>>]
B(b) == [kind |-> "bool", n |-> b, s |-> <<>>]
L(items) == [kind |-> "list", n |-> 0, s |-> items]
D(keys) == [kind |-> "dict", n |-> keys, s |-> <<>>]
Inf == [kind |-> "inf", n |-> 0, s |-> <<>>]
NaN == [kind |-> "nan", n |-> 0, s |-> <<>>]
Absent == [kind |-> "absent", n |-> 0, s |-> <<>>]

\* Python truthiness of a value (`if producer and vintage`, `value if value`)
Truthy(v) ==
    CASE v.kind = "null" -> FALSE
      [] v.kind = "absent" -> FALSE
      [] v.kind = "int" -> v.n /= 0
      [] v.kind = "float" -> v.n /= 0
      [] v.kind = "bool" -> v.n /= 0
      [] v.kind = "str" -> v.s /= <<>>
      [] v.kind = "list" -> v.s /= <<>>
      [] v.kind = "dict" -> v.n /= 0
      [] v.kind = "nan" -> TRUE
      [] OTHER -> TRUE

-----------------------------------------------------------------------------
(* Strings as the SQL engine sees them *)

LowerChar(c) ==
    CASE c = "A" -> "a"
      [] c = "B" -> "b"
      [] c = "C" -> "c"
      [] OTHER -> c

\* SQL LOWER(text)
Lower(t) == [i \in 1..Len(t) |-> LowerChar(t[i])]

\* SQL `text LIKE pattern`: % matches any run of characters, _ any one
RECURSIVE Like(_, _)
Like(t, p) ==
    IF p = <<>> THEN t = <<>>
    ELSE IF Head(p) = "%" THEN Like(t, Tail(p)) \/ (t /= <<>> /\ Like(Tail(t), p))
    ELSE IF t = <<>> THEN FALSE
    ELSE (Head(p) = "_" \/ Head(p) = Head(t)) /\ Like(Tail(t), Tail(p))

\* f"{name}": a string as it is, None as "None"
Formatted(name) ==
    IF name.kind = "str" THEN name.s ELSE <<"N", "o", "n", "e">>

\* the pattern f"%{name}%"
SearchPattern(name) == <<"%">> \o Formatted(name) \o <<"%">>

\* t contains u as a substring, ignoring case
ContainsCI(t, u) ==
    \E i \in 0..(Len(t) - Len(u)) :
        SubSeq(Lower(t), i + 1, i + Len(u)) = Lower(u)

\* t and u are equal, ignoring case
EqualCI(t, u) == Lower(t) = Lower(u)

-----------------------------------------------------------------------------
(* The wines table *)

Rows(W) == {W[i] : i \in DOMAIN W}

\* a row of the wines table (the columns the handlers below read)
Row(id, name, producer, vintage, quantity, created_at) ==
    [id |-> id, name |-> name, producer |-> producer, vintage |-> vintage,
     quantity |-> quantity, created_at |-> created_at]

NoWine == [id |-> 0, name |-> <<>>, producer |-> Null, vintage |-> Null,
           quantity |-> 0, created_at |-> 0]

\* WHERE LOWER(name) = LOWER(?)   (LOWER(NULL) equals nothing)
NameEq(w, name) == name.kind = "str" /\ Lower(w.name) = Lower(name.s)

\* AND LOWER(producer) = LOWER(?)   (NULL = anything is not true)
ProducerEq(w, producer) ==
    w.producer.kind = "str" /\ Lower(w.producer.s) = Lower(producer.s)

\* AND vintage = ?   (NULL = anything is not true)
VintageEq(w, k) == w.vintage.kind = "int" /\ w.vintage.n = k

Tier1(W, name, producer, vintage) ==
    {w \in Rows(W) : NameEq(w, name) /\ ProducerEq(w, producer)
                        /\ VintageEq(w, vintage.n)}

Tier2(W, name, vintage) ==
    {w \in Rows(W) : NameEq(w, name) /\ VintageEq(w, vintage.n)}

Tier3(W, name, producer) ==
    {w \in Rows(W) : NameEq(w, name) /\ ProducerEq(w, producer)}

\* the value bound to the CASE of the ORDER BY: `vintage or 0`
VintageOrZero(vintage) == IF Truthy(vintage) THEN vintage.n ELSE 0

\* WHERE LOWER(name) LIKE LOWER(?)
FuzzyRows(W, name) ==
    {w \in Rows(W) : Like(Lower(w.name), Lower(SearchPattern(name)))}

\* CASE WHEN vintage = ? THEN 0 ELSE 1 END
FuzzyRank(w, k) == IF VintageEq(w, k) THEN 0 ELSE 1

\* ORDER BY CASE ..., created_at DESC LIMIT 1: the rows that may come first
Tier4(W, name, vintage) ==
    LET cand == FuzzyRows(W, name)
        k == VintageOrZero(vintage)
    IN {w \in cand :
          \A u \in cand :
              \/ FuzzyRank(w, k) < FuzzyRank(u, k)
              \/ /\ FuzzyRank(w, k) = FuzzyRank(u, k)
                 /\ w.created_at >= u.created_at}

\* find_matching_wine: the rows the call may return (fetchone() of a query
\* without ORDER BY returns any of its rows); the empty set stands for None.
find_matching_wine(W, name, producer, vintage) ==
    IF Truthy(producer) /\ Truthy(vintage)
          /\ Tier1(W, name, producer, vintage) /= {}
      THEN Tier1(W, name, producer, vintage)
    ELSE IF Truthy(vintage) /\ Tier2(W, name, vintage) /= {}
      THEN Tier2(W, name, vintage)
    ELSE IF Truthy(producer) /\ Tier3(W, name, producer) /= {}
      THEN Tier3(W, name, producer)
    ELSE Tier4(W, name, vintage)

\* get_wine: the row, or NoWine for None
get_wine(W, wine_id) == IF wine_id \in DOMAIN W THEN W[wine_id] ELSE NoWine

\* a lost-update variant: the new quantity is written as a value, not as an
\* expression over the stored one
increment_wine_quantity_overwrite(W, wine_id, amount) ==
    IF wine_id \in DOMAIN W
      THEN [W EXCEPT ![wine_id].quantity = amount]
      ELSE W

\* increment_wine_quantity: UPDATE wines SET quantity = quantity + ? WHERE id = ?
increment_wine_quantity(W, wine_id, amount) ==
    IF wine_id \in DOMAIN W
      THEN [W EXCEPT ![wine_id].quantity = @ + amount]
      ELSE W

-----------------------------------------------------------------------------
(* validate_wine_data *)

DigitValue(c) ==
    CASE c = "0" -> 0 [] c = "1" -> 1 [] c = "2" -> 2 [] c = "3" -> 3
      [] c = "4" -> 4 [] c = "5" -> 5 [] c = "6" -> 6 [] c = "7" -> 7
      [] c = "8" -> 8 [] c = "9" -> 9 [] OTHER -> -1

IsDigits(t) == t /= <<>> /\ \A i \in 1..Len(t) : DigitValue(t[i]) >= 0

RECURSIVE DigitsValue(_)
DigitsValue(t) ==
    IF t = <<>> THEN 0
    ELSE 10 * DigitsValue(SubSeq(t, 1, Len(t) - 1)) + DigitValue(t[Len(t)])

\* str.strip() of the blanks around a numeric literal
RECURSIVE Strip(_)
Strip(t) ==
    IF t /= <<>> /\ Head(t) = " " THEN Strip(Tail(t))
    ELSE IF t /= <<>> /\ t[Len(t)] = " " THEN Strip(SubSeq(t, 1, Len(t) - 1))
    ELSE t

\* the result of a conversion: a number, or the exception it raises
Converted(k) == [exc |-> "none", n |-> k]
Raises(e) == [exc |-> e, n |-> 0]

\* int(text): blanks around, an optional sign, decimal digits
IntOfText(t) ==
    LET u == Strip(t)
        neg == u /= <<>> /\ Head(u) = "-"
        body == IF u /= <<>> /\ Head(u) \in {"-", "+"} THEN Tail(u) ELSE u
    IN IF IsDigits(body)
         THEN Converted(IF neg THEN 0 - DigitsValue(body) ELSE DigitsValue(body))
         ELSE Raises("ValueError")

\* int(value) of a parsed JSON value; a float is truncated towards zero
IntOf(v) ==
    CASE v.kind = "int" -> Converted(v.n)
      [] v.kind = "bool" -> Converted(v.n)
      [] v.kind = "float" ->
            Converted(IF v.n >= 0 THEN v.n \div 10 ELSE 0 - ((0 - v.n) \div 10))
      [] v.kind = "inf" -> Raises("OverflowError")
      [] v.kind = "nan" -> Raises("ValueError")
      [] v.kind = "str" -> IntOfText(v.s)
      [] OTHER -> Raises("TypeError")

\* the position of the decimal point of a literal, 0 if it has none
PointAt(t) ==
    IF \E i \in 1..Len(t) : t[i] = "." THEN CHOOSE i \in 1..Len(t) : t[i] = "."
    ELSE 0

\* float(text), in tenths, for literals of at most one decimal; "inf" and
\* "nan" are literals of float() too
FloatOfText(t) ==
    LET u == Strip(t)
        neg == u /= <<>> /\ Head(u) = "-"
        body == IF u /= <<>> /\ Head(u) \in {"-", "+"} THEN Tail(u) ELSE u
        dot == PointAt(body)
        whole == IF dot = 0 THEN body ELSE SubSeq(body, 1, dot - 1)
        frac == IF dot = 0 THEN <<>> ELSE SubSeq(body, dot + 1, Len(body))
        tenths == 10 * DigitsValue(whole)
                     + (IF frac = <<>> THEN 0 ELSE DigitValue(frac[1]))
    IN IF Lower(body) = <<"i", "n", "f">> THEN Inf
       ELSE IF Lower(body) = <<"n", "a", "n">> THEN NaN
       ELSE IF IsDigits(whole \o frac) /\ Len(frac) <= 1
                  /\ (whole /= <<>> \/ frac /= <<>>)
         THEN F(IF neg THEN 0 - tenths ELSE tenths)
       ELSE [kind |-> "raise", n |-> 0, s |-> <<"ValueError">>]

\* float(value) of a parsed JSON value: a float, inf, nan, or kind "raise"
FloatOf(v) ==
    CASE v.kind = "int" -> F(10 * v.n)
      [] v.kind = "bool" -> F(10 * v.n)
      [] v.kind = "float" -> v
      [] v.kind = "inf" -> v
      [] v.kind = "nan" -> v
      [] v.kind = "str" -> FloatOfText(v.s)
      [] OTHER -> [kind |-> "raise", n |-> 0, s |-> <<"TypeError">>]

\* the exception leaves validate_wine_data: it is no ValueError or TypeError
Uncaught(e) == [kind |-> "raise", n |-> 0, s |-> <<e>>]

\* `value = int(value)`, the range check, `except (ValueError, TypeError)`
IntField(v, lo, hi) ==
    IF v.kind \in {"null", "absent"} THEN Null
    ELSE LET r == IntOf(v)
         IN IF r.exc = "none"
              THEN IF lo <= r.n /\ r.n <= hi THEN I(r.n) ELSE Null
            ELSE IF r.exc \in {"ValueError", "TypeError"} THEN Null
            ELSE Uncaught(r.exc)

\* `alcohol = float(alcohol)`, `0 <= alcohol <= 100`, the same except clause
FloatField(v, lo, hi) ==
    IF v.kind \in {"null", "absent"} THEN Null
    ELSE LET r == FloatOf(v)
         IN IF r.kind = "float"
              THEN IF 10 * lo <= r.n /\ r.n <= 10 * hi THEN r ELSE Null
            ELSE Null

UnknownWine == <<"U", "n", "k", "n", "o", "w", "n", " ", "W", "i", "n", "e">>

valid_styles ==
    {<<"R", "e", "d">>, <<"W", "h", "i", "t", "e">>, <<"R", "o", "s", "é">>,
     <<"S", "p", "a", "r", "k", "l", "i", "n", "g">>,
     <<"D", "e", "s", "s", "e", "r", "t">>,
     <<"F", "o", "r", "t", "i", "f", "i", "e", "d">>}

VintageMin == 1800
VintageMax == 2100
WindowMin == 1900
WindowMax == 2200
ScoreMin == 0
ScoreMax == 100
AlcoholMin == 0
AlcoholMax == 100

\* the decimal digits of a natural number
RECURSIVE Digits(_)
Digits(k) ==
    IF k < 10 THEN <<CHOOSE c \in {"0", "1", "2", "3", "4", "5", "6", "7", "8", "9"} :
                        DigitValue(c) = k>>
    ELSE Digits(k \div 10) \o Digits(k % 10)

\* str(g) of a list element (strings and natural numbers)
StrOf(v) == IF v.kind = "str" THEN v ELSE S(Digits(v.n))

\* [str(g) for g in items if g]
RECURSIVE TruthyStrings(_)
TruthyStrings(items) ==
    IF items = <<>> THEN <<>>
    ELSE IF Truthy(Head(items))
      THEN <<StrOf(Head(items))>> \o TruthyStrings(Tail(items))
    ELSE TruthyStrings(Tail(items))

StringKeys == {"producer", "country", "region", "appellation", "description"}

Keys == {"error", "name", "style", "vintage", "drinking_window_start",
         "drinking_window_end", "score", "alcohol_percentage",
         "grape_varieties", "tasting_notes", "needs_clarification",
         "clarification_questions"} \cup StringKeys

\* the mapping without keys
EmptyMapping == [k \in Keys |-> Absent]

\* the mapping built by validate_wine_data when `data` has no "error" key
CleanedOf(data) ==
    [k \in Keys |->
       CASE k = "error" -> Absent
         [] k = "name" ->
              IF Truthy(data.name) THEN data.name ELSE S(UnknownWine)
         [] k \in StringKeys -> IF Truthy(data[k]) THEN data[k] ELSE Null
         [] k = "style" ->
              IF data.style.kind = "str" /\ data.style.s \in valid_styles
                THEN data.style ELSE Null
         [] k = "vintage" -> IntField(data.vintage, VintageMin, VintageMax)
         [] k \in {"drinking_window_start", "drinking_window_end"} ->
              IntField(data[k], WindowMin, WindowMax)
         [] k = "score" -> IntField(data.score, ScoreMin, ScoreMax)
         [] k = "alcohol_percentage" ->
              FloatField(data.alcohol_percentage, AlcoholMin, AlcoholMax)
         [] k = "grape_varieties" ->
              IF data[k].kind = "list" THEN L(TruthyStrings(data[k].s)) ELSE L(<<>>)
         [] k = "tasting_notes" ->
              IF data[k].kind = "dict" THEN data[k] ELSE D(0)
         [] k = "needs_clarification" -> B(IF Truthy(data[k]) THEN 1 ELSE 0)
         [] OTHER ->
              IF data[k].kind = "list" THEN L(TruthyStrings(data[k].s)) ELSE L(<<>>)]

Returned(m) == [exc |-> "none", value |-> m]
Raised(e) == [exc |-> e, value |-> EmptyMapping]
NotCalled == [exc |-> "pending", value |-> EmptyMapping]

\* a variant of validate_wine_data that passes through only a mapping whose
\* "error" value is truthy
validate_wine_data_truthy(data) ==
    IF Truthy(data.error) THEN Returned(data)
    ELSE LET c == CleanedOf(data)
         IN IF \E k \in Keys : c[k].kind = "raise"
              THEN Raised(c[CHOOSE k \in Keys : c[k].kind = "raise"].s[1])
              ELSE Returned(c)

\* validate_wine_data(data): the mapping it returns, or the exception that
\* leaves it
validate_wine_data(data) ==
    IF data.error.kind /= "absent" THEN Returned(data)
    ELSE LET c == CleanedOf(data)
         IN IF \E k \in Keys : c[k].kind = "raise"
              THEN Raised(c[CHOOSE k \in Keys : c[k].kind = "raise"].s[1])
              ELSE Returned(c)

-----------------------------------------------------------------------------
(* POST /api/drink *)

\* no response of analyze_image is at hand
NotAnalyzed ==
    [status |-> "none", body |-> EmptyMapping, image_path |-> FALSE,
     queried |-> FALSE, is_duplicate |-> FALSE, existing_wine |-> NoWine,
     touched |-> FALSE]

NoOutcome == [status |-> "none", wine |-> 0, previous_quantity |-> 0,
              new_quantity |-> 0]

Response(status, wine_id, prev, new) ==
    [status |-> status, wine |-> wine_id, previous_quantity |-> prev,
     new_quantity |-> new]

NoIdent == [shape |-> "none", name |-> Null, producer |-> Null, vintage |-> Null]

Identified(name, producer, vintage) ==
    [shape |-> "mapping", name |-> name, producer |-> producer,
     vintage |-> vintage]

\* what identify_wine_image may return: an error mapping ("API error: ...",
\* "Failed to parse AI response: ...", "Cannot identify wine") or the parsed
\* JSON object of the oracle
IdentifyResults ==
    {[shape |-> "error", name |-> Null, producer |-> Null, vintage |-> Null],
     Identified(S(<<"a">>), Null, I(2015)),
     Identified(S(<<"a", "b">>), Null, Null),
     Identified(S(<<"c">>), Null, Null)}

\* an off-by-one variant of the check: a cellar of zero bottles passes it
NoBottlesLeftStrict(w) == w.quantity < 0

\* `existing.get("quantity", 0) <= 0`
NoBottlesLeft(w) == w.quantity <= 0

\* a request is over: it sent `resp`
Finish(p, resp) ==
    /\ pc' = [pc EXCEPT ![p] = "done"]
    /\ outcome' = [outcome EXCEPT ![p] = resp]
    /\ history' = Append(history, resp)

\* a variant of drink_wine that takes the bottle first and checks afterwards
\* whether there was one
DrinkMatchDecrementFirst(p) ==
    /\ pc[p] = "idle"
    /\ Len(history) + Cardinality({q \in Requests : pc[q] \notin {"idle", "done"}})
          < MaxServed
    /\ \E res \in IdentifyResults :
         /\ ident' = [ident EXCEPT ![p] = res]
         /\ IF res.shape = "error"
              THEN /\ Finish(p, Response("error", 0, 0, 0))
                   /\ UNCHANGED existing
              ELSE LET M == find_matching_wine(wines, res.name, res.producer,
                                               res.vintage)
                   IN IF M = {}
                        THEN /\ Finish(p, Response("not_found", 0, 0, 0))
                             /\ UNCHANGED existing
                        ELSE \E w \in M :
                               /\ existing' = [existing EXCEPT ![p] = w]
                               /\ IF NoBottlesLeft(w)
                                    THEN Finish(p, Response("no_bottles", w.id,
                                                            w.quantity, w.quantity))
                                    ELSE /\ pc' = [pc EXCEPT ![p] = "decrement"]
                                         /\ UNCHANGED <<outcome, history>>
    /\ wines' = IF pc'[p] = "idle" \/ existing'[p] = NoWine THEN wines
                ELSE increment_wine_quantity(wines, existing'[p].id, -1)
    /\ touched' = [touched EXCEPT ![p] = @ \/ (wines' /= wines)]
    /\ UNCHANGED <<nextId, clock, wines0, qBefore, query, found, raw, response, parsed, cleaned>>
    /\ analysis' = NotAnalyzed

\* drink_wine up to the quantity check: input checks, identify_wine_image,
\* find_matching_wine, `existing.get("quantity", 0) <= 0`
DrinkMatch(p) ==
    /\ pc[p] = "idle"
    /\ Len(history) + Cardinality({q \in Requests : pc[q] \notin {"idle", "done"}})
          < MaxServed
    /\ \E res \in IdentifyResults :
         /\ ident' = [ident EXCEPT ![p] = res]
         /\ IF res.shape = "error"
              THEN /\ Finish(p, Response("error", 0, 0, 0))
                   /\ UNCHANGED existing
              ELSE LET M == find_matching_wine(wines, res.name, res.producer,
                                               res.vintage)
                   IN IF M = {}
                        THEN /\ Finish(p, Response("not_found", 0, 0, 0))
                             /\ UNCHANGED existing
                        ELSE \E w \in M :
                               /\ existing' = [existing EXCEPT ![p] = w]
                               /\ IF NoBottlesLeft(w)
                                    THEN Finish(p, Response("no_bottles", w.id,
                                                            w.quantity, w.quantity))
                                    ELSE /\ pc' = [pc EXCEPT ![p] = "decrement"]
                                         /\ UNCHANGED <<outcome, history>>
    /\ wines' = wines
    /\ touched' = [touched EXCEPT ![p] = @ \/ (wines' /= wines)]
    /\ UNCHANGED <<nextId, clock, wines0, qBefore, query, found, raw, response, parsed, cleaned>>
    /\ analysis' = NotAnalyzed

\* a read-compute-write variant of the decrement: the value read by the
\* match is decremented and written back
DrinkDecrementStale(p) ==
    /\ pc[p] = "decrement"
    /\ qBefore' = [qBefore EXCEPT ![p] = get_wine(wines, existing[p].id).quantity]
    /\ wines' = increment_wine_quantity_overwrite(wines, existing[p].id,
                                                  existing[p].quantity - 1)
    /\ touched' = [touched EXCEPT ![p] = @ \/ (wines' /= wines)]
    /\ pc' = [pc EXCEPT ![p] = "report"]
    /\ UNCHANGED <<nextId, clock, wines0, ident, existing, outcome, history,
                   query, found, raw, response, parsed, cleaned>>
    /\ analysis' = NotAnalyzed

\* drink_wine: database.increment_wine_quantity(existing["id"], -1)
DrinkDecrement(p) ==
    /\ pc[p] = "decrement"
    /\ qBefore' = [qBefore EXCEPT ![p] = get_wine(wines, existing[p].id).quantity]
    /\ wines' = increment_wine_quantity(wines, existing[p].id, -1)
    /\ touched' = [touched EXCEPT ![p] = @ \/ (wines' /= wines)]
    /\ pc' = [pc EXCEPT ![p] = "report"]
    /\ UNCHANGED <<nextId, clock, wines0, ident, existing, outcome, history,
                   query, found, raw, response, parsed, cleaned>>
    /\ analysis' = NotAnalyzed

\* drink_wine: updated_wine = database.get_wine(existing["id"]) and the
\* response; updated_wine["quantity"] of None raises TypeError
DrinkReport(p) ==
    /\ pc[p] = "report"
    /\ LET updated_wine == get_wine(wines, existing[p].id)
       IN IF updated_wine = NoWine
            THEN Finish(p, Response("exception", existing[p].id, 0, 0))
            ELSE Finish(p, Response("ok", existing[p].id, existing[p].quantity,
                                    updated_wine.quantity))
    /\ wines' = wines
    /\ touched' = [touched EXCEPT ![p] = @ \/ (wines' /= wines)]
    /\ UNCHANGED <<nextId, clock, wines0, ident, existing, qBefore, query,
                   found, raw, response, parsed, cleaned>>
    /\ analysis' = NotAnalyzed

\* the client sends the next request once the response of the last arrived
DrinkAgain(p) ==
    /\ pc[p] = "done"
    /\ Len(history) < MaxServed
    /\ pc' = [pc EXCEPT ![p] = "idle"]
    /\ ident' = [ident EXCEPT ![p] = NoIdent]
    /\ existing' = [existing EXCEPT ![p] = NoWine]
    /\ outcome' = [outcome EXCEPT ![p] = NoOutcome]
    /\ touched' = [touched EXCEPT ![p] = FALSE]
    /\ qBefore' = [qBefore EXCEPT ![p] = 0]
    /\ UNCHANGED <<wines, nextId, clock, wines0, history, query, found, raw, response, parsed,
                   cleaned>>
    /\ analysis' = NotAnalyzed

DrinkStep(p) == DrinkMatch(p) \/ DrinkDecrement(p) \/ DrinkReport(p)

-----------------------------------------------------------------------------
(* Parsing the oracle's answer: analyze_wine_image, identify_wine_image *)

\* the grave accent (U+0060), which a TLA+ string cannot hold, is written ^
Tick == "^"
Fence == <<Tick, Tick, Tick>>
Newline == "\n"

\* the characters str.strip() and the JSON grammar skip (of those used here)
Blank(c) == c \in {" ", Newline}

\* response_text.strip()
RECURSIVE StripText(_)
StripText(t) ==
    IF t /= <<>> /\ Blank(Head(t)) THEN StripText(Tail(t))
    ELSE IF t /= <<>> /\ Blank(t[Len(t)]) THEN StripText(SubSeq(t, 1, Len(t) - 1))
    ELSE t

\* str.startswith
StartsWith(t, prefix) ==
    Len(t) >= Len(prefix) /\ SubSeq(t, 1, Len(prefix)) = prefix

\* response_text.split("\n")
RECURSIVE SplitLines(_)
SplitLines(t) ==
    IF \A i \in 1..Len(t) : t[i] /= Newline THEN <<t>>
    ELSE LET i == CHOOSE j \in 1..Len(t) :
                    t[j] = Newline /\ \A h \in 1..(j - 1) : t[h] /= Newline
         IN <<SubSeq(t, 1, i - 1)>> \o SplitLines(SubSeq(t, i + 1, Len(t)))

\* "\n".join(json_lines)
RECURSIVE JoinLines(_)
JoinLines(lines) ==
    IF lines = <<>> THEN <<>>
    ELSE IF Len(lines) = 1 THEN lines[1]
    ELSE lines[1] \o <<Newline>> \o JoinLines(Tail(lines))

\* a variant of the loop over the lines that does not stop at the closing fence
RECURSIVE FencedLinesUnclosed(_, _)
FencedLinesUnclosed(lines, in_json) ==
    IF lines = <<>> THEN <<>>
    ELSE IF StartsWith(Head(lines), Fence) /\ ~in_json
      THEN FencedLinesUnclosed(Tail(lines), TRUE)
    ELSE IF in_json THEN <<Head(lines)>> \o FencedLinesUnclosed(Tail(lines), in_json)
    ELSE FencedLinesUnclosed(Tail(lines), in_json)

\* the loop over the lines: json_lines are the lines after the first fence
\* line and before the next one
RECURSIVE FencedLines(_, _)
FencedLines(lines, in_json) ==
    IF lines = <<>> THEN <<>>
    ELSE IF StartsWith(Head(lines), Fence) /\ ~in_json
      THEN FencedLines(Tail(lines), TRUE)
    ELSE IF StartsWith(Head(lines), Fence) /\ in_json THEN <<>>
    ELSE IF in_json THEN <<Head(lines)>> \o FencedLines(Tail(lines), in_json)
    ELSE FencedLines(Tail(lines), in_json)

\* the text handed to json.loads
JsonText(text) ==
    LET response_text == StripText(text)
    IN IF StartsWith(response_text, Fence)
         THEN JoinLines(FencedLines(SplitLines(response_text), FALSE))
         ELSE response_text

\* json.loads on the texts used here: an integer literal or an empty object,
\* blanks allowed around the value and between the braces; anything else is
\* a JSONDecodeError
DecodeError == [kind |-> "raise", n |-> 0, s |-> <<"JSONDecodeError">>]

json_loads(t) ==
    LET u == StripText(t)
    IN IF IsDigits(u) /\ (Len(u) = 1 \/ Head(u) /= "0") THEN I(DigitsValue(u))
       ELSE IF /\ Len(u) >= 2
               /\ Head(u) = "{"
               /\ u[Len(u)] = "}"
               /\ \A i \in 2..(Len(u) - 1) : Blank(u[i])
         THEN D(0)
       ELSE DecodeError

\* {"error": "Failed to parse AI response: ...", "raw_response": response_text}
ParseFailureWithText(response_text) ==
    [kind |-> "dict", n |-> 2,
     s |-> <<"Failed to parse AI response">> \o response_text]

\* {"error": "Failed to parse AI response: ..."}
ParseFailure == [kind |-> "dict", n |-> 1, s |-> <<"Failed to parse AI response">>]

\* analyze_wine_image from the oracle's text on
analyze_parse(text) ==
    LET result == json_loads(JsonText(text))
    IN IF result = DecodeError THEN ParseFailureWithText(JsonText(text))
       ELSE result

\* identify_wine_image from the oracle's text on
identify_parse(text) ==
    LET result == json_loads(JsonText(text))
    IN IF result = DecodeError THEN ParseFailure ELSE result

NoResponse == [body |-> <<>>, wrap |-> "none", text |-> <<>>]
NotParsed == [analyze |-> Null, identify |-> Null, done |-> FALSE]

-----------------------------------------------------------------------------
(* POST /api/analyze *)

\* the JSON object {"name": ..., "vintage": ..., "needs_clarification": ...}
Label(name, vintage, unsure) ==
    [shape |-> "mapping",
     value |-> [EmptyMapping EXCEPT !.name = name, !.vintage = vintage,
                                    !.needs_clarification = unsure]]

\* what analyze_wine_image may return: an error mapping ("API error: ...",
\* "Failed to parse AI response: ...", "Not a wine label image") or whatever
\* JSON value the oracle's text parses to
AnalyzeResults ==
    {[shape |-> "mapping",
      value |-> [EmptyMapping EXCEPT !.error = S(<<"A", "P", "I">>)]],
     [shape |-> "mapping",
      value |-> [EmptyMapping EXCEPT !.error = Null, !.name = S(<<"a">>),
                                     !.vintage = I(2400)]],
     [shape |-> "list", value |-> EmptyMapping],
     Label(S(<<"a">>), Inf, Absent),
     Label(S(<<"a">>), I(2015), B(1))}
    \cup {Label(name, vintage, Absent) :
            name \in {S(<<"a">>), Absent}, vintage \in {Absent, I(2015), I(2400)}}

\* validate_wine_data(analyze_wine_image(...)); a result that is no mapping
\* has no .get
Checked(res) ==
    IF res.shape = "mapping" THEN validate_wine_data(res.value)
    ELSE Raised("AttributeError")

\* a variant of the test before the duplicate check that ignores
\* needs_clarification
AsksDespiteClarification(c) == ~Truthy(c.error)

\* `if not cleaned.get("error") and not cleaned.get("needs_clarification")`
Asks(c) == ~Truthy(c.error) /\ ~Truthy(c.needs_clarification)

\* the rows analyze_image may report as existing_wine (NoWine: none)
Duplicates(W, c) ==
    LET M == IF Asks(c) THEN find_matching_wine(W, c.name, c.producer, c.vintage)
             ELSE {}
    IN IF M = {} THEN {NoWine} ELSE M

\* the response jsonify(cleaned) with the fields analyze_image adds;
\* save_uploaded_file gives no path when the upload to the image service fails
Analyzed(c, saved, e) ==
    [status |-> "ok", body |-> c, image_path |-> saved, queried |-> Asks(c),
     is_duplicate |-> e /= NoWine, existing_wine |-> e, touched |-> FALSE]

\* a variant of analyze_image that merges a duplicate into the stored row
AnalyzeImageMerging ==
    /\ \E res \in AnalyzeResults :
         IF Checked(res).exc /= "none"
           THEN /\ analysis' = [NotAnalyzed EXCEPT !.status = "exception"]
                /\ wines' = wines
           ELSE \E saved \in BOOLEAN, e \in Duplicates(wines, Checked(res).value) :
                  /\ wines' = IF e /= NoWine
                                THEN increment_wine_quantity(wines, e.id, 1)
                                ELSE wines
                  /\ analysis' = [Analyzed(Checked(res).value, saved, e)
                                    EXCEPT !.touched = (wines' /= wines)]
    /\ UNCHANGED <<nextId, clock, wines0, pc, ident, existing, outcome, touched,
                   qBefore, history, query, found, raw, response, parsed, cleaned>>

\* analyze_image: analyze_wine_image, validate_wine_data, save_uploaded_file,
\* find_matching_wine, jsonify(cleaned); an exception is a 500 response
AnalyzeImage ==
    /\ \E res \in AnalyzeResults :
         IF Checked(res).exc /= "none"
           THEN /\ analysis' = [NotAnalyzed EXCEPT !.status = "exception"]
                /\ wines' = wines
           ELSE \E saved \in BOOLEAN, e \in Duplicates(wines, Checked(res).value) :
                  /\ wines' = wines
                  /\ analysis' = [Analyzed(Checked(res).value, saved, e)
                                    EXCEPT !.touched = (wines' /= wines)]
    /\ UNCHANGED <<nextId, clock, wines0, pc, ident, existing, outcome, touched,
                   qBefore, history, query, found, raw, response, parsed, cleaned>>

-----------------------------------------------------------------------------
(* POST /api/wines, PUT and DELETE /api/wines/<id> *)

\* request bodies of POST /api/wines: a name and, as given, vintage and
\* quantity (`data.get("quantity", 1)`); nothing is validated
CreateBodies ==
    {[name |-> <<"a">>, vintage |-> I(2015), quantity |-> q] : q \in {1, MaxQuantity}}
    \cup {[name |-> <<"A", "b">>, vintage |-> Null, quantity |-> q] : q \in {1, MaxQuantity}}
    \cup {[name |-> <<"a">>, vintage |-> I(2400), quantity |-> 1]}

\* database.create_wine: INSERT INTO wines ...
create_wine(W, id, data, now) ==
    W @@ (id :> Row(id, data.name, Null, data.vintage, data.quantity, now))

\* create_wine (app.py); created_at is CURRENT_TIMESTAMP, here one tick per row
CreateWine ==
    /\ nextId <= MaxWines
    /\ \E data \in CreateBodies :
         wines' = create_wine(wines, nextId, data, clock)
    /\ clock' = clock + 1
    /\ nextId' = nextId + 1
    /\ UNCHANGED <<wines0, pc, ident, existing, outcome, touched, qBefore,
                   history, query, found, raw, response, parsed, cleaned>>
    /\ analysis' = NotAnalyzed

\* request bodies of PUT /api/wines/<id>: the fields to overwrite
UpdateBodies == [quantity : {0, MaxQuantity}]

\* database.update_wine: UPDATE wines SET quantity = ? WHERE id = ?
update_wine(W, id, data) == [W EXCEPT ![id].quantity = data.quantity]

\* update_wine (app.py)
UpdateWine ==
    /\ \E id \in DOMAIN wines, data \in UpdateBodies :
         wines' = update_wine(wines, id, data)
    /\ UNCHANGED <<nextId, clock, wines0, pc, ident, existing, outcome, touched,
                   qBefore, history, query, found, raw, response, parsed, cleaned>>
    /\ analysis' = NotAnalyzed

\* database.delete_wine: DELETE FROM wines WHERE id = ?
delete_wine(W, id) == [i \in DOMAIN W \ {id} |-> W[i]]

\* delete_wine (app.py)
DeleteWine ==
    /\ \E id \in DOMAIN wines : wines' = delete_wine(wines, id)
    /\ UNCHANGED <<nextId, clock, wines0, pc, ident, existing, outcome, touched,
                   qBefore, history, query, found, raw, response, parsed, cleaned>>
    /\ analysis' = NotAnalyzed

-----------------------------------------------------------------------------
(* Initial states *)

NoQuery == [name |-> Null, producer |-> Null, vintage |-> Null]

InitRequests ==
    /\ pc = [p \in Requests |-> "idle"]
    /\ ident = [p \in Requests |-> NoIdent]
    /\ existing = [p \in Requests |-> NoWine]
    /\ outcome = [p \in Requests |-> NoOutcome]
    /\ touched = [p \in Requests |-> FALSE]
    /\ qBefore = [p \in Requests |-> 0]
    /\ history = <<>>

InitProbes ==
    /\ query = NoQuery
    /\ found = NoWine
    /\ raw = EmptyMapping
    /\ cleaned = NotCalled
    /\ analysis = NotAnalyzed
    /\ response = NoResponse
    /\ parsed = NotParsed

\* a cellar of two wines, "a" 2015 and the later "Ab", with bottles of each
InitDrink ==
    /\ \E q1 \in 0..MaxQuantity, q2 \in 0..1 :
         wines = (1 :> Row(1, <<"a">>, Null, I(2015), q1, 1)) @@
                 (2 :> Row(2, <<"A", "b">>, Null, Null, q2, 2))
    /\ nextId = 3
    /\ clock = 3
    /\ wines0 = wines
    /\ InitRequests
    /\ InitProbes

\* the server starts on an empty table
Init ==
    /\ wines = <<>>
    /\ nextId = 1
    /\ clock = 1
    /\ wines0 = wines
    /\ InitRequests
    /\ InitProbes

\* the requests served together: the cellar is edited while labels are
\* analyzed and one bottle is drunk
Next ==
    \/ CreateWine
    \/ UpdateWine
    \/ DeleteWine
    \/ AnalyzeImage
    \/ DrinkStep(1)

Spec == Init /\ [][Next]_vars

\* drink requests served concurrently
NextDrink == \E p \in Requests : DrinkStep(p)

SpecDrink == InitDrink /\ [][NextDrink]_vars

\* drink requests sent one after another
Quiet(p) == \A q \in Requests \ {p} : pc[q] \in {"idle", "done"}

NextSeq == \E p \in Requests : Quiet(p) /\ (DrinkStep(p) \/ DrinkAgain(p))

SpecSeq == InitDrink /\ [][NextSeq]_vars

-----------------------------------------------------------------------------
(* find_matching_wine on its own: any cellar, any arguments *)

StoredNames == {<<"a">>, <<"A", "b">>, <<"b", "_">>}
StoredProducers == {Null, S(<<"g">>)}
StoredVintages == {Null, I(0), I(2015)}

QueryNames == {<<"a">>, <<"a", "B">>, <<"_">>, <<"a", "%">>, <<"c">>}
QueryProducers == {Null, S(<<"G">>), S(<<"h">>)}
QueryVintages == {Null, I(2015), I(2016)}

\* the cellars of up to MaxWines rows; ids are given in order of insertion
\* and two rows may carry the same timestamp
Cellars ==
    UNION {
      {[i \in 1..k |-> Row(i, f[i].name, f[i].producer, f[i].vintage, 1,
                           f[i].created_at)] :
         f \in [1..k -> [name : StoredNames, producer : StoredProducers,
                         vintage : StoredVintages, created_at : 1..2]]} :
      k \in 0..MaxWines}

InitMatch ==
    /\ wines \in Cellars
    /\ nextId = Len(wines) + 1
    /\ clock = 3
    /\ wines0 = wines
    /\ InitRequests
    /\ InitProbes

\* one call of find_matching_wine(name, producer, vintage)
MatchQuery ==
    /\ query = NoQuery
    /\ \E name \in QueryNames, producer \in QueryProducers,
          vintage \in QueryVintages :
         LET M == find_matching_wine(wines, S(name), producer, vintage)
         IN /\ query' = [name |-> S(name), producer |-> producer,
                         vintage |-> vintage]
            /\ found' \in (IF M = {} THEN {NoWine} ELSE M)
    /\ UNCHANGED <<wines, nextId, clock, wines0, pc, ident, existing, outcome,
                   touched, qBefore, history, raw, response, parsed, cleaned, analysis>>

SpecMatch == InitMatch /\ [][MatchQuery]_vars

-----------------------------------------------------------------------------
(* validate_wine_data on its own: the JSON objects of up to MaxKeys keys *)

\* values the oracle's JSON may hold under key k (json.loads reads 1e999 and
\* Infinity as float inf, NaN as float nan)
ValuesOf(k) ==
    CASE k = "error" -> {Null, S(<<"N", "o", "t", " ", "a", " ", "l", "a", "b", "e", "l">>)}
      [] k = "name" -> {Null, S(<<>>), S(<<"a">>), I(5)}
      [] k \in StringKeys -> {Null, S(<<>>), S(<<"g">>)}
      [] k = "style" ->
            {Null, S(<<>>), S(<<"R", "e", "d">>), S(<<"R", "o", "s", "é">>),
             S(<<"r", "e", "d">>), S(<<"O", "r", "a", "n", "g", "e">>), I(1),
             L(<<>>)}
      [] k = "vintage" ->
            {Null, I(1650), I(1799), I(1800), I(2015), I(2100), I(2101),
             I(2400), F(20155), Inf, NaN, B(1), S(<<"2", "0", "1", "5">>),
             S(<<"u", "n", "k", "n", "o", "w", "n">>), L(<<>>)}
      [] k \in {"drinking_window_start", "drinking_window_end"} ->
            {Null, I(1899), I(1900), I(2030), I(2200), I(2201), F(20305), Inf,
             S(<<" ", "2", "0", "3", "0", " ">>), S(<<"s", "o", "o", "n">>),
             D(1)}
      [] k = "score" ->
            {Null, I(-5), I(-1), I(0), I(88), I(100), I(101), I(150), F(885),
             F(-5), Inf, B(1), S(<<"8", "8">>), S(<<"h", "i", "g", "h">>)}
      [] k = "alcohol_percentage" ->
            {Null, I(13), I(100), I(101), I(-1), F(135), F(1001), F(-1), Inf,
             NaN, B(1), S(<<"1", "3", ".", "5">>), S(<<"a", "b", "c">>),
             L(<<>>)}
      [] k = "grape_varieties" ->
            {Null, L(<<>>), L(<<S(<<"x">>), S(<<>>), I(5)>>), S(<<"x">>)}
      [] k = "tasting_notes" -> {Null, D(2), L(<<>>)}
      [] k = "needs_clarification" ->
            {Null, B(0), B(1), S(<<"y", "e", "s">>), I(0)}
      [] OTHER -> {Null, L(<<S(<<"q">>), Null>>), S(<<"q">>)}

RECURSIVE Mappings(_)
Mappings(n) ==
    IF n = 0 THEN {EmptyMapping}
    ELSE LET M == Mappings(n - 1)
         IN M \cup UNION {{[mk[1] EXCEPT ![mk[2]] = v] : v \in ValuesOf(mk[2])} :
                            mk \in M \X Keys}

InitValidate ==
    /\ wines = <<>>
    /\ nextId = 1
    /\ clock = 1
    /\ wines0 = wines
    /\ InitRequests
    /\ query = NoQuery
    /\ found = NoWine
    /\ raw \in Mappings(MaxKeys)
    /\ cleaned = NotCalled
    /\ analysis = NotAnalyzed
    /\ response = NoResponse
    /\ parsed = NotParsed

\* one call of validate_wine_data(raw)
Validate ==
    /\ cleaned = NotCalled
    /\ cleaned' = validate_wine_data(raw)
    /\ UNCHANGED <<wines, nextId, clock, wines0, pc, ident, existing, outcome,
                   touched, qBefore, history, query, found, raw, response, parsed, analysis>>

SpecValidate == InitValidate /\ [][Validate]_vars

-----------------------------------------------------------------------------
(* The parsing of oracle answers alone *)

Alphabet == {"{", "}", "1", " ", Newline, Tick}

RECURSIVE Texts(_)
Texts(n) ==
    IF n = 0 THEN {<<>>}
    ELSE Texts(n - 1) \cup {t \o <<c>> : t \in Texts(n - 1), c \in Alphabet}

\* the ways an answer may carry its body: bare, in a fenced block (the
\* markers on lines of their own, with or without a language tag), or
\* between markers on the same line
Wraps == {"none", "block", "tagged", "inline"}

Wrapped(body, wrap) ==
    CASE wrap = "block" -> Fence \o <<Newline>> \o body \o <<Newline>> \o Fence
      [] wrap = "tagged" ->
            Fence \o <<"j", "s", "o", "n", Newline>> \o body \o <<Newline>> \o Fence
      [] wrap = "inline" -> Fence \o body \o Fence
      [] OTHER -> body

InitParse ==
    /\ wines = <<>>
    /\ nextId = 1
    /\ clock = 1
    /\ wines0 = wines
    /\ InitRequests
    /\ query = NoQuery
    /\ found = NoWine
    /\ raw = EmptyMapping
    /\ cleaned = NotCalled
    /\ analysis = NotAnalyzed
    /\ \E body \in Texts(MaxBody), wrap \in Wraps :
         response = [body |-> body, wrap |-> wrap, text |-> Wrapped(body, wrap)]
    /\ parsed = NotParsed

\* both handlers parse the same answer
Parse ==
    /\ ~parsed.done
    /\ parsed' = [analyze |-> analyze_parse(response.text),
                  identify |-> identify_parse(response.text), done |-> TRUE]
    /\ UNCHANGED <<wines, nextId, clock, wines0, pc, ident, existing, outcome,
                   touched, qBefore, history, query, found, raw, cleaned,
                   analysis, response>>

SpecParse == InitParse /\ [][Parse]_vars

-----------------------------------------------------------------------------
(* Claims about the drink flow *)

AllFinished == \A p \in Requests : pc[p] \in {"idle", "done"}

\* the requests that took a bottle of wine `id` and said so
Drinkers(id) ==
    {p \in Requests : outcome[p].status = "ok" /\ outcome[p].wine = id}

\* C1: under any interleaving of drink requests, the stored quantity of a
\* wine that started with a quantity >= 0 is never below zero.
C1_QuantityNeverNegative ==
    \A id \in DOMAIN wines :
        wines0[id].quantity >= 0 => wines[id].quantity >= 0

\* C2: once all concurrent drink requests have finished, the stored quantity
\* of every wine is its initial quantity minus the number of requests that
\* decremented it (those that answered with success): no update is lost.
C2_NoLostUpdate ==
    AllFinished =>
        \A id \in DOMAIN wines :
            wines[id].quantity = wines0[id].quantity - Cardinality(Drinkers(id))

\* two requests read the same quantity of the same wine, and both drank
C2_Witness ==
    /\ AllFinished
    /\ \E p, q \in Requests :
         /\ p /= q
         /\ outcome[p].status = "ok" /\ outcome[q].status = "ok"
         /\ outcome[p].wine = outcome[q].wine
         /\ outcome[p].previous_quantity = outcome[q].previous_quantity

\* C3: every successful drink request reports new_quantity =
\* previous_quantity - 1, where previous_quantity is the quantity stored
\* immediately before its own decrement, under every interleaving.
C3_ReportsOwnDecrement ==
    \A p \in Requests :
        outcome[p].status = "ok" =>
            /\ outcome[p].new_quantity = outcome[p].previous_quantity - 1
            /\ outcome[p].previous_quantity = qBefore[p]

\* the responses about wine `id`, in the order they were sent
RECURSIVE About(_, _)
About(h, id) ==
    IF h = <<>> THEN <<>>
    ELSE IF Head(h).wine = id THEN <<Head(h)>> \o About(Tail(h), id)
    ELSE About(Tail(h), id)

\* C4: drink requests sent one after another for a wine of n bottles: the
\* first n succeed and leave n-1, ..., 0 bottles; every later one answers
\* "No bottles left" and leaves the quantity at 0.
C4_SequentialExhaustion ==
    \A id \in DOMAIN wines :
        LET n == wines0[id].quantity
            H == About(history, id)
        IN /\ \A i \in 1..Len(H) :
                IF i <= n
                  THEN /\ H[i].status = "ok"
                       /\ H[i].previous_quantity = n - i + 1
                       /\ H[i].new_quantity = n - i
                  ELSE /\ H[i].status = "no_bottles"
                       /\ H[i].new_quantity = 0
           /\ AllFinished =>
                wines[id].quantity = IF Len(H) <= n THEN n - Len(H) ELSE 0

\* a wine of two bottles was drunk twice and then asked for twice more
C4_Witness ==
    /\ wines0[1].quantity = 2
    /\ Len(About(history, 1)) = 4
    /\ About(history, 1)[4].status = "no_bottles"
    /\ wines[1].quantity = 0

\* C5: a drink request that ends with the identification error, with "Wine
\* not found in collection" or with "No bottles left of this wine" has
\* changed no stored row.
C5_OnlySuccessWrites ==
    \A p \in Requests :
        outcome[p].status \in {"error", "not_found", "no_bottles"} => ~touched[p]

\* each of the three outcomes happened while another request took a bottle
C5_Witness ==
    /\ \E p \in Requests : outcome[p].status = "no_bottles"
    /\ \E p \in Requests : outcome[p].status \in {"error", "not_found"}
    /\ \E p \in Requests : outcome[p].status = "ok"

-----------------------------------------------------------------------------
(* Claims about find_matching_wine *)

Asked == query /= NoQuery

\* the tiers as the specification words them
SameName(w) == EqualCI(w.name, query.name.s)
SameProducer(w) ==
    /\ query.producer.kind = "str"
    /\ w.producer.kind = "str"
    /\ EqualCI(w.producer.s, query.producer.s)
SameVintage(w) == query.vintage.kind = "int" /\ w.vintage = query.vintage
NameContains(w) == ContainsCI(w.name, query.name.s)

TierApplies(i) ==
    CASE i = 1 -> Truthy(query.producer) /\ Truthy(query.vintage)
      [] i = 2 -> Truthy(query.vintage)
      [] i = 3 -> Truthy(query.producer)
      [] OTHER -> TRUE

TierHolds(i, w) ==
    CASE i = 1 -> SameName(w) /\ SameProducer(w) /\ SameVintage(w)
      [] i = 2 -> SameName(w) /\ SameVintage(w)
      [] i = 3 -> SameName(w) /\ SameProducer(w)
      [] OTHER -> NameContains(w)

TiersWithHit ==
    {i \in 1..4 : TierApplies(i) /\ \E w \in Rows(wines) : TierHolds(i, w)}

FirstTierWithHit ==
    CHOOSE i \in TiersWithHit : \A j \in TiersWithHit : i <= j

\* C6: the returned row satisfies the predicate of the lowest-numbered
\* applicable tier (1 name+producer+vintage, 2 name+vintage, 3 name+producer,
\* 4 name contains the supplied name) that some stored row satisfies.
C6_FirstTierWins ==
    (Asked /\ TiersWithHit /= {}) =>
        (found /= NoWine /\ TierHolds(FirstTierWithHit, found))

\* C7: when tiers 1-3 have no hit, the result is one of the rows whose name
\* contains the supplied name; it has the supplied vintage if one of them has,
\* and no equally ranked row among them was created later.
C7_FuzzyRanking ==
    LET C == {w \in Rows(wines) : NameContains(w)}
    IN (Asked /\ TiersWithHit \subseteq {4} /\ C /= {}) =>
          /\ found \in C
          /\ (\E w \in C : SameVintage(w)) => SameVintage(found)
          /\ \A u \in C :
                (SameVintage(u) <=> SameVintage(found))
                    => found.created_at >= u.created_at

\* C8: find_matching_wine returns None exactly when no stored name contains
\* the supplied name (ignoring case).
C8_NoneIffNoSubstring ==
    Asked => (found = NoWine <=> ~ \E w \in Rows(wines) : NameContains(w))

-----------------------------------------------------------------------------
(* Claims about analyze_image *)

\* the step is a call of find_matching_wine made for a drink request
Matches == \E p \in Requests : pc[p] = "idle" /\ pc'[p] /= "idle"

\* the step is a whole analyze request
Analyzes == analysis' /= NotAnalyzed

\* C9: matching and analysis are read-only on the inventory: a call of
\* find_matching_wine, and a whole analyze request whatever its outcome
\* (error, needs_clarification, duplicate found, no duplicate), leaves the set
\* of stored records and every field of every record unchanged; a duplicate
\* is only reported, never merged or rejected.
C9_AnalysisReadOnly == [][(Matches \/ Analyzes) => wines' = wines]_vars

\* an analyze request has just reported a duplicate that is in the table
C9_Witness ==
    /\ analysis.status = "ok"
    /\ analysis.is_duplicate
    /\ analysis.existing_wine \in Rows(wines)

\* null or an integer of the range
NullOrIntIn(v, lo, hi) ==
    v = Null \/ (v.kind = "int" /\ lo <= v.n /\ v.n <= hi)

\* an analyze request has just been answered with a result
Answered == analysis.status = "ok"

\* the result carries the field (a value that counts as true)
Carries(c, k) == c[k] \notin {Absent, Null, B(0), S(<<>>), I(0)}

\* the rows find_matching_wine may return for the result's name, producer
\* and vintage
MatchesOf(c) == find_matching_wine(wines, c.name, c.producer, c.vintage)

\* C15: the result of an analyze request carries is_duplicate = true and
\* existing_wine equal to the stored record exactly when the validated result
\* carries neither error nor needs_clarification and find_matching_wine on its
\* name, producer and vintage returns a record; with an error or
\* needs_clarification the matcher is not queried and neither field is present.
C15_DuplicateDetection ==
    Answered =>
        LET c == analysis.body
            clean == ~Carries(c, "error") /\ ~Carries(c, "needs_clarification")
        IN /\ analysis.queried <=> clean
           /\ analysis.is_duplicate <=> (clean /\ MatchesOf(c) /= {})
           /\ analysis.is_duplicate =>
                 /\ analysis.existing_wine \in MatchesOf(c)
                 /\ analysis.existing_wine \in Rows(wines)
           /\ ~analysis.is_duplicate => analysis.existing_wine = NoWine

\* a result that needs clarification was answered, without a duplicate,
\* while the table holds a row its name and vintage would match
C15_Witness ==
    /\ Answered
    /\ Carries(analysis.body, "needs_clarification")
    /\ MatchesOf(analysis.body) /= {}
    /\ ~analysis.is_duplicate
    /\ ~analysis.queried

\* C16: the uploaded image is persisted regardless of the match outcome:
\* every analyze request whose extraction succeeded, duplicate or not, has
\* the image saved and carries its storage reference (image_path).
C16_ImagePersisted ==
    (Answered /\ ~Carries(analysis.body, "error")) => analysis.image_path

\* C17: a failed extraction short-circuits the later steps of its request:
\* after an error result no matcher query is made, no image is persisted and
\* the inventory is not changed, in the analyze flow and in the drink flow.
C17_FailureShortCircuits ==
    /\ (Answered /\ Carries(analysis.body, "error")) =>
          /\ ~analysis.queried
          /\ ~analysis.image_path
          /\ ~analysis.touched
    /\ \A p \in Requests :
          outcome[p].status = "error" => (existing[p] = NoWine /\ ~touched[p])

\* C19: no unstructured fault reaches the caller: whatever the oracle
\* answers and however the requests interleave with create, update, delete
\* and drink, each analyze and each drink request ends in a typed outcome
\* (result, error result, not found, no bottles left), never in an uncaught
\* exception.
C19_NoUncaughtException ==
    /\ analysis.status /= "exception"
    /\ \A p \in Requests : outcome[p].status /= "exception"

\* C20: whenever analyze_image queries the matcher, the name it passes is a
\* non-empty value produced by the validator and the vintage is null or an
\* integer in [1800, 2100]; no raw oracle field is used as a match key.
C20_MatcherGetsValidated ==
    (Answered /\ analysis.queried) =>
        /\ Carries(analysis.body, "name")
        /\ NullOrIntIn(analysis.body.vintage, VintageMin, VintageMax)

-----------------------------------------------------------------------------
(* Claims about the parsing of oracle answers *)

\* the body is a JSON text
JsonBody == json_loads(response.body) /= DecodeError

\* the wrapped answer parsed to what the bare body parses to, in both handlers
SameAsBare ==
    /\ parsed.analyze = analyze_parse(response.body)
    /\ parsed.identify = identify_parse(response.body)

\* C18: for every JSON body, an answer that is the body wrapped in a fenced
\* block (a line starting with three grave accents before it and one after
\* it) parses to the same result as the bare body, in analyze_wine_image and
\* in identify_wine_image.
C18_FenceStripping ==
    (parsed.done /\ JsonBody /\ response.wrap \in {"block", "tagged"})
        => SameAsBare

\* C18 as stated: the same for every answer that has the markers before and
\* after the body, also on the body's own line.
C18_AnyMarkers ==
    (parsed.done /\ JsonBody /\ response.wrap /= "none") => SameAsBare

\* an object spread over two lines came out of a tagged fenced block
C18_Witness ==
    /\ parsed.done
    /\ response.wrap = "tagged"
    /\ response.body = <<"{", Newline, "}">>
    /\ parsed.analyze = D(0)
    /\ parsed.identify = D(0)

-----------------------------------------------------------------------------
(* Claims about validate_wine_data *)

Validated == cleaned /= NotCalled

NullOrNumberIn(v, lo, hi) ==
    v = Null \/ (v.kind \in {"int", "float"} /\ 10 * lo <= v.n /\ v.n <= 10 * hi)

\* an integer outside [lo, hi], an infinite number, or a value that is no
\* number and no numeric literal
OutOfRangeOrNonNumeric(v, lo, hi) ==
    \/ v.kind = "int" /\ (v.n < lo \/ v.n > hi)
    \/ v.kind = "inf"
    \/ v.kind = "str" /\ FloatOfText(v.s).kind = "raise"
    \/ v.kind \in {"list", "dict"}

IntKeys == {"vintage", "drinking_window_start", "drinking_window_end", "score"}

LowOf(k) ==
    CASE k = "vintage" -> VintageMin
      [] k = "score" -> ScoreMin
      [] k = "alcohol_percentage" -> AlcoholMin
      [] OTHER -> WindowMin

HighOf(k) ==
    CASE k = "vintage" -> VintageMax
      [] k = "score" -> ScoreMax
      [] k = "alcohol_percentage" -> AlcoholMax
      [] OTHER -> WindowMax

\* C10: for a mapping without an error indicator validate_wine_data returns
\* vintage, both ends of the drinking window and score null or an integer of
\* its range and alcohol_percentage null or a number in [0, 100]; an integer
\* already in range is kept, an out-of-range or non-numeric input gives null.
C10_NumericFieldsBounded ==
    (Validated /\ raw.error = Absent) =>
        /\ cleaned.exc = "none"
        /\ \A k \in IntKeys :
             /\ NullOrIntIn(cleaned.value[k], LowOf(k), HighOf(k))
             /\ (raw[k].kind = "int" /\ LowOf(k) <= raw[k].n /\ raw[k].n <= HighOf(k))
                   => cleaned.value[k] = raw[k]
        /\ NullOrNumberIn(cleaned.value.alcohol_percentage, AlcoholMin, AlcoholMax)
        /\ \A k \in IntKeys \cup {"alcohol_percentage"} :
             OutOfRangeOrNonNumeric(raw[k], LowOf(k), HighOf(k))
                => cleaned.value[k] = Null

\* the six styles the specification enumerates
EnumeratedStyles ==
    {S(<<"R", "e", "d">>), S(<<"W", "h", "i", "t", "e">>),
     S(<<"R", "o", "s", "é">>), S(<<"S", "p", "a", "r", "k", "l", "i", "n", "g">>),
     S(<<"D", "e", "s", "s", "e", "r", "t">>),
     S(<<"F", "o", "r", "t", "i", "f", "i", "e", "d">>)}

\* C11: for a mapping without an error indicator validate_wine_data returns
\* the input style when it is one of Red, White, Rosé, Sparkling, Dessert,
\* Fortified (exact, case-sensitive) and null for every other input, also
\* "Orange", the empty string, null and an absent key.
C11_StyleEnumerated ==
    (Validated /\ raw.error = Absent) =>
        /\ cleaned.exc = "none"
        /\ cleaned.value.style =
              (IF raw.style \in EnumeratedStyles THEN raw.style ELSE Null)

\* C12: a mapping that carries an error indicator is returned unchanged: the
\* same keys and values, nothing added, removed or normalized.
C12_ErrorPassthrough ==
    (Validated /\ raw.error /= Absent) => cleaned = Returned(raw)

\* an error mapping with a field the cleaning would have changed went through
C12_Witness ==
    /\ Validated
    /\ raw.error /= Absent
    /\ \E k \in Keys \ {"error"} : raw[k] /= Absent /\ raw[k] /= CleanedOf(raw)[k]
    /\ cleaned = Returned(raw)

\* the mapping that has only the key k of m
Only(m, k) == [EmptyMapping EXCEPT ![k] = m[k]]

\* C13: validate_wine_data never raises, and each field of its result is
\* what the field alone gives: a field that fails coercion or the range check
\* becomes null/empty and changes no other field.
C13_NeverRaises ==
    Validated =>
        /\ cleaned.exc = "none"
        /\ raw.error = Absent =>
              \A k \in Keys \ {"error"} :
                 cleaned.value[k] = CleanedOf(Only(raw, k))[k]


-----------------------------------------------------------------------------
(* Claims about the stored records *)

\* C14: after any sequence of create, update, delete, analyze and drink
\* requests every stored record has its numeric fields null or within their
\* bounds (of the columns kept here: vintage null or in [1800, 2100]).
C14_StoredRecordsBounded ==
    \A w \in Rows(wines) : NullOrIntIn(w.vintage, VintageMin, VintageMax)

====
